---- MODULE Spec2Model ----
(***************************************************************************)
(* The MOS 6510 emulation of src/src/cpu6510.ts as a state machine: the    *)
(* register file, the internal latches, the bus pins and the micro-step    *)
(* queue (sequences), driven by the pin-level entry points clock, reset,    *)
(* interruptRequest, nonMaskableInterrupt and setOverflow.                 *)
(***************************************************************************)
EXTENDS Integers, Sequences, FiniteSets, TLC

(***************************************************************************)
(* Bounds of the model.                                                    *)
(***************************************************************************)
\* clock() calls explored after construction or after a reset
MaxClocks == 8

(***************************************************************************)
(* Power-up values, cpu6510.ts lines 51-61.                                *)
(***************************************************************************)
PROGRAM_COUNTER_DEFUALT == 65532
STATUS_REGISTER_DEFUALT == 4
STACK_POINTER_DEFUALT == 0
ACCUMULATOR_DEFUALT == 0
X_REGISTER_DEFUALT == 0
Y_REGISTER_DEFUALT == 0
INSTRUCTION_REGISTER_DEFUALT == 0
INTERNAL_ADDRESS_DATA_DEFUALT == 0
ADDRESS_BUS_BUFFER_DEFUALT == 0
DATA_BUS_BUFFER_DEFUALT == 0

(***************************************************************************)
(* The byte and word primitives the source imports: unsigned values that   *)
(* wrap at 8 and 16 bits, with bit accessors.                              *)
(***************************************************************************)
\* byte(data): the low 8 bits
Byte(data) == data % 256

\* word(data): the low 16 bits
Word(data) == data % 65536

\* data << byte.size
ShiftLeft(data) == data * 256

\* data >> byte.size
ShiftRight(data) == data \div 256

\* byte.get(data, index): bit index of data
BitGet(data, index) == (data \div (2 ^ index)) % 2

\* byte.set(data, index, value): data with bit index set to value
BitSet(data, index, value) ==
    Byte(data - BitGet(data, index) * (2 ^ index) + value * (2 ^ index))

(***************************************************************************)
(* The opcode dispatch tables, indexed by opcode + 1.                      *)
(***************************************************************************)
operationsTable ==
    << "BRK", "ORA", "JAM", "SLO", "NOP", "ORA", "ASL", "SLO", "PHP", "ORA", "ASL", "ANS", "NOP", "ORA", "ASL", "SLO",
       "BPL", "ORA", "JAM", "SLO", "NOP", "ORA", "ASL", "SLO", "CLC", "ORA", "NOP", "SLO", "NOP", "ORA", "ASL", "SLO",
       "JSR", "AND", "JAM", "RLA", "BIT", "AND", "ROL", "RLA", "PLP", "AND", "ROL", "ANR", "BIT", "AND", "ROL", "RLA",
       "BMI", "AND", "JAM", "RLA", "NOP", "AND", "ROL", "RLA", "SEC", "AND", "NOP", "RLA", "NOP", "AND", "ROL", "RLA",
       "RTI", "EOR", "JAM", "SRE", "NOP", "EOR", "LSR", "SRE", "PHA", "EOR", "LSR", "ASR", "JMP", "EOR", "LSR", "SRE",
       "BVC", "EOR", "JAM", "SRE", "NOP", "EOR", "LSR", "SRE", "CLI", "EOR", "NOP", "SRE", "NOP", "EOR", "LSR", "SRE",
       "RTS", "ADC", "JAM", "RRA", "NOP", "ADC", "ROR", "RRA", "PLA", "ADC", "ROR", "ARR", "JMP", "ADC", "ROR", "RRA",
       "BVS", "ADC", "JAM", "RRA", "NOP", "ADC", "ROR", "RRA", "SEI", "ADC", "NOP", "RRA", "NOP", "ADC", "ROR", "RRA",
       "NOP", "STA", "NOP", "SAX", "STY", "STA", "STX", "SAX", "DEY", "NOP", "TXA", "ANE", "STY", "STA", "STX", "SAX",
       "BCC", "STA", "JAM", "SHA", "STY", "STA", "STX", "SAX", "TYA", "STA", "TXS", "TAS", "SHY", "STA", "SHX", "SHA",
       "LDY", "LDA", "LDX", "LAX", "LDY", "LDA", "LDX", "LAX", "TAY", "LDA", "TAX", "LXA", "LDY", "LDA", "LDX", "LAX",
       "BCS", "LDA", "JAM", "LAX", "LDY", "LDA", "LDX", "LAX", "CLV", "LDA", "TSX", "LEA", "LDY", "LDA", "LDX", "LAX",
       "CPY", "CMP", "NOP", "DCP", "CPY", "CMP", "DEC", "DCP", "INY", "CMP", "DEX", "SBX", "CPY", "CMP", "DEC", "DCP",
       "BNE", "CMP", "JAM", "DCP", "NOP", "CMP", "DEC", "DCP", "CLD", "CMP", "NOP", "DCP", "NOP", "CMP", "DEC", "DCP",
       "CPX", "SBC", "NOP", "ISB", "CPX", "SBC", "INC", "ISB", "INX", "SBC", "NOP", "USB", "CPX", "SBC", "INC", "ISB",
       "BEQ", "SBC", "JAM", "ISB", "NOP", "SBC", "INC", "ISB", "SED", "SBC", "NOP", "ISB", "NOP", "SBC", "INC", "ISB" >>

addressingsTable ==
    << "IMP", "IDX", "IMM", "IDX", "ZPG", "ZPG", "ZPG", "ZPG", "IMP", "IMM", "ACU", "IMM", "ABS", "ABS", "ABS", "ABS",
       "REL", "IDY", "IMM", "IDY", "ZPX", "ZPX", "ZPX", "ZPX", "IMP", "ABY", "IMP", "ABY", "ABX", "ABX", "ABX", "ABX",
       "ABS", "IDX", "IMM", "IDX", "ZPG", "ZPG", "ZPG", "ZPG", "IMP", "IMM", "ACU", "IMM", "ABS", "ABS", "ABS", "ABS",
       "REL", "IDY", "IMM", "IDY", "ZPX", "ZPX", "ZPX", "ZPX", "IMP", "ABY", "IMP", "ABY", "ABX", "ABX", "ABX", "ABX",
       "IMP", "IDX", "IMM", "IDX", "ZPG", "ZPG", "ZPG", "ZPG", "IMP", "IMM", "ACU", "IMM", "ABS", "ABS", "ABS", "ABS",
       "REL", "IDY", "IMM", "IDY", "ZPX", "ZPX", "ZPX", "ZPX", "IMP", "ABY", "IMP", "ABY", "ABX", "ABX", "ABX", "ABX",
       "IMP", "IDX", "IMM", "IDX", "ZPG", "ZPG", "ZPG", "ZPG", "IMP", "IMM", "ACU", "IMM", "ABS", "ABS", "ABS", "ABS",
       "REL", "IDY", "IMM", "IDY", "ZPX", "ZPX", "ZPX", "ZPX", "IMP", "ABY", "IMP", "ABY", "ABX", "ABX", "ABX", "ABX",
       "IMM", "IDX", "IMM", "IDX", "ZPG", "ZPG", "ZPG", "ZPG", "IMP", "IMM", "IMP", "IMM", "ABS", "ABS", "ABS", "ABS",
       "REL", "IDY", "IMM", "IDY", "ZPX", "ZPX", "ZPY", "ZPY", "IMP", "ABY", "IMP", "ABY", "ABX", "ABX", "ABY", "ABY",
       "IMM", "IDX", "IMM", "IDX", "ZPG", "ZPG", "ZPG", "ZPG", "IMP", "IMM", "IMP", "IMM", "ABS", "ABS", "ABS", "ABS",
       "REL", "IDY", "IMM", "IDY", "ZPX", "ZPX", "ZPY", "ZPY", "IMP", "ABY", "IMP", "ABY", "ABX", "ABX", "ABY", "ABY",
       "IMM", "IDX", "IMM", "IDX", "ZPG", "ZPG", "ZPG", "ZPG", "IMP", "IMM", "IMP", "IMM", "ABS", "ABS", "ABS", "ABS",
       "REL", "IDY", "IMM", "IDY", "ZPX", "ZPX", "ZPX", "ZPX", "IMP", "ABY", "IMP", "ABY", "ABX", "ABX", "ABX", "ABX",
       "IMM", "IDX", "IMM", "IDX", "ZPG", "ZPG", "ZPG", "ZPG", "IMP", "IMM", "IMP", "IMM", "ABS", "ABS", "ABS", "ABS",
       "REL", "IDY", "IMM", "IDY", "ZPX", "ZPX", "ZPX", "ZPX", "IMP", "ABY", "IMP", "ABY", "ABX", "ABX", "ABX", "ABX" >>

\* the operation handlers the class defines
HandlerNames ==
    { "ADC", "AND", "ANE", "ANS", "ANR", "ARR", "ASL", "ASR", "BCC",
      "BCS", "BEQ", "BIT", "BMI", "BNE", "BPL", "BRK", "BVC", "BVS",
      "CLC", "CLD", "CLI", "CLV", "CMP", "CPX", "CPY", "DCP", "DEC",
      "DEX", "DEY", "EOR", "INC", "INX", "INY", "ISB", "JAM", "JMP",
      "JSR", "LAX", "LDA", "LDX", "LDY", "LEA", "LSR", "LXA", "NOP",
      "ORA", "PHA", "PHP", "PLA", "PLP", "ROL", "ROR", "RTI", "RTS",
      "USB", "SAX", "SBC", "SBX", "SEC", "SED", "SEI", "SHA", "SHX",
      "SHY", "SLO", "STA", "STX", "STY", "SRE", "TAS", "TAX", "TAY",
      "TSX", "TXA", "TXS", "TYA", "RLA", "RRA" }

\* the addressing decoders the class defines
DecoderNames ==
    { "ACU", "IMM", "IMP", "ABS", "ABX", "ABY", "ZPG", "ZPX", "ZPY", "IDX",
      "IDY", "REL" }

\* the operation table with no entry for opcode 0xFF
operations_gap(opcode) ==
    IF opcode = 255 THEN "undefined" ELSE operationsTable[opcode + 1]

\* this.operations[opcode]
operations(opcode) == operationsTable[opcode + 1]

\* this.addressings[opcode]
addressings(opcode) == addressingsTable[opcode + 1]

(***************************************************************************)
(* State.  The first group are the fields of the cpu6510 object; memory is *)
(* the content of the MemoryLike collaborator.  The second group records   *)
(* what the entry points did, for the properties below: it is never read   *)
(* by the model of the code.                                               *)
(***************************************************************************)
VARIABLES
    PCL, PCH, PS, SP, AC, XR, YR,       \* registers
    I_I, I_ADL, I_ADH, I_DB,            \* internal latches
    IO_DB, IO_ABL, IO_ABH,              \* pins
    sequences,                          \* pending micro-steps
    memory,                             \* the memory collaborator's content
    writes,                             \* its write() calls: address, data
    last,         \* the entry point called last ("fetch"/"step" for clock)
    opAddr,       \* program counter at the last opcode fetch
    executed,     \* T-numbers of the micro-steps run since that fetch
    invoked,      \* operation handler invocations since that fetch
    added,        \* index value added by an indexing micro-step since it
    reads,        \* addresses read from memory since it, the opcode's first
    abandoned,    \* micro-steps the last reset dropped (0 once a fetch follows)
    input,        \* argument of the last program-counter or status setter call
    clocks        \* clock() calls since construction or reset

vars == << PCL, PCH, PS, SP, AC, XR, YR, I_I, I_ADL, I_ADH, I_DB,
           IO_DB, IO_ABL, IO_ABH, sequences, memory, writes,
           last, opAddr, executed, invoked, added, reads, abandoned, input,
           clocks >>

\* The object as one record, so that a method is a function from the state
\* before the call to the state after it.
Cur ==
    [ PCL |-> PCL, PCH |-> PCH, PS |-> PS, SP |-> SP, AC |-> AC,
      XR |-> XR, YR |-> YR,
      I_I |-> I_I, I_ADL |-> I_ADL, I_ADH |-> I_ADH, I_DB |-> I_DB,
      IO_DB |-> IO_DB, IO_ABL |-> IO_ABL, IO_ABH |-> IO_ABH,
      sequences |-> sequences, writes |-> writes,
      last |-> last, opAddr |-> opAddr,
      executed |-> executed, invoked |-> invoked, added |-> added,
      reads |-> reads, abandoned |-> abandoned, input |-> input ]

\* The object's fields become those of s.
Become(s) ==
    /\ PCL' = s.PCL /\ PCH' = s.PCH /\ PS' = s.PS /\ SP' = s.SP
    /\ AC' = s.AC /\ XR' = s.XR /\ YR' = s.YR
    /\ I_I' = s.I_I /\ I_ADL' = s.I_ADL /\ I_ADH' = s.I_ADH /\ I_DB' = s.I_DB
    /\ IO_DB' = s.IO_DB /\ IO_ABL' = s.IO_ABL /\ IO_ABH' = s.IO_ABH
    /\ sequences' = s.sequences /\ writes' = s.writes
    /\ last' = s.last /\ opAddr' = s.opAddr
    /\ executed' = s.executed /\ invoked' = s.invoked /\ added' = s.added
    /\ reads' = s.reads /\ abandoned' = s.abandoned /\ input' = s.input

\* The field initialisers of the class, before the constructor body runs.
FieldInitializers ==
    [ PCL |-> 0, PCH |-> 0, PS |-> 0, SP |-> 0, AC |-> 0, XR |-> 0, YR |-> 0,
      I_I |-> 0, I_ADL |-> 0, I_ADH |-> 0, I_DB |-> 0,
      IO_DB |-> 0, IO_ABL |-> 0, IO_ABH |-> 0,
      sequences |-> << >>, writes |-> << >>,
      last |-> "constructor", opAddr |-> 0,
      executed |-> << >>, invoked |-> << >>, added |-> 0,
      reads |-> << >>, abandoned |-> 0, input |-> 0 ]

(***************************************************************************)
(* The memory collaborator.  An image holds a three-byte program at the    *)
(* power-up program counter and a few pointer bytes on and after page      *)
(* zero; every other cell reads 0, as in the bundled driver.               *)
(***************************************************************************)
\* one opcode per addressing mode, and the opcodes the properties single out
ProgramOpcodes ==
    { 10,   \* 0x0A ASL ACU
      169,  \* 0xA9 LDA IMM
      234,  \* 0xEA NOP IMP
      232,  \* 0xE8 INX IMP
      173,  \* 0xAD LDA ABS
      189,  \* 0xBD LDA ABX
      185,  \* 0xB9 LDA ABY
      165,  \* 0xA5 LDA ZPG
      181,  \* 0xB5 LDA ZPX
      182,  \* 0xB6 LDX ZPY
      161,  \* 0xA1 LDA IDX
      177,  \* 0xB1 LDA IDY
      208,  \* 0xD0 BNE REL
      2,    \* 0x02 JAM IMM
      141,  \* 0x8D STA ABS
      76 }  \* 0x4C JMP ABS

\* operand bytes: 0x00, 0x20, 0x42, 0xFF
OperandValues == { 0, 32, 66, 255 }

\* pointer bytes: 0x01, 0x20/0x21, 0x24/0x25, 0xFF and 0x100
PointerData ==
    (1 :> 36) @@ (32 :> 255) @@ (33 :> 32) @@ (36 :> 52) @@ (37 :> 18)
    @@ (255 :> 128) @@ (256 :> 85)

ProgramImage(opcode, low, high) ==
    (PROGRAM_COUNTER_DEFUALT :> opcode)
    @@ (PROGRAM_COUNTER_DEFUALT + 1 :> low)
    @@ (PROGRAM_COUNTER_DEFUALT + 2 :> high)
    @@ PointerData

MemoryImages ==
    { ProgramImage(opcode, low, high) :
        opcode \in ProgramOpcodes, low \in OperandValues, high \in OperandValues }

\* memory.read(address)
Read(address) == IF address \in DOMAIN memory THEN memory[address] ELSE 0

\* the content after memory.write(address, data) for each entry of ws in turn
Stored(image, ws) ==
    LET cells == { ws[k].address : k \in DOMAIN ws }
        final(a) == CHOOSE k \in DOMAIN ws :
                        /\ ws[k].address = a
                        /\ \A j \in DOMAIN ws : ws[j].address = a => j <= k
    IN  [a \in DOMAIN image \cup cells |->
            IF a \in cells THEN ws[final(a)].data ELSE image[a]]

\* the write() calls s has made beyond those of the current state
Written(s) == SubSeq(s.writes, Len(writes) + 1, Len(s.writes))

(***************************************************************************)
(* Combination registers and their accessors.                             *)
(***************************************************************************)
\* get PC / get programCounter
PC(s) == Word(ShiftLeft(s.PCH) + s.PCL)

\* set PC without the shift: both halves get the low byte
setProgramCounterTo_noShift(s, data) ==
    [s EXCEPT !.PCL = Byte(Word(data)), !.PCH = Byte(Word(data))]

\* set programCounter
setProgramCounterTo(s, data) ==
    [s EXCEPT !.PCL = Byte(Word(data)), !.PCH = Byte(ShiftRight(Word(data)))]

\* get I_AD / get internalAddressData
I_AD(s) == Word(ShiftLeft(s.I_ADH) + s.I_ADL)

\* set I_AD without word(): the carry out of bit 15 stays in the high half
setInternalAddressDataTo_noWrap(s, data) ==
    [s EXCEPT !.I_ADL = Byte(data), !.I_ADH = ShiftRight(data)]

\* set internalAddressData
setInternalAddressDataTo(s, data) ==
    [s EXCEPT !.I_ADL = Byte(Word(data)), !.I_ADH = Byte(ShiftRight(Word(data)))]

\* get IO_AB / get addressBus
IO_AB(s) == Word(ShiftLeft(s.IO_ABH) + s.IO_ABL)

\* set addressBus
setAddressBusTo(s, data) ==
    [s EXCEPT !.IO_ABL = Byte(Word(data)), !.IO_ABH = Byte(ShiftRight(Word(data)))]

\* get interruptFlag
interruptFlag(s) == BitGet(s.PS, 2)

\* set breakFlag inverting the flag instead of writing the value
setBreakFlag_toggles(s, value) ==
    [s EXCEPT !.PS = BitSet(@, 4, 1 - BitGet(@, 4))]

\* set breakFlag
setBreakFlag(s, value) == [s EXCEPT !.PS = BitSet(@, 4, value)]

\* set overflowFlag writing bit 7, the negative flag
setOverflowFlag_negative(s, value) == [s EXCEPT !.PS = BitSet(@, 7, value)]

\* set overflowFlag
setOverflowFlag(s, value) == [s EXCEPT !.PS = BitSet(@, 6, value)]

(***************************************************************************)
(* Protected helpers of the class.                                         *)
(***************************************************************************)

\* defaultState without "this.sequences = []"
defaultState_keepsQueue(s) ==
    LET s1 == setProgramCounterTo(s, PROGRAM_COUNTER_DEFUALT)
        s2 == [s1 EXCEPT !.PS = Byte(STATUS_REGISTER_DEFUALT),
                         !.SP = Byte(STACK_POINTER_DEFUALT),
                         !.AC = Byte(ACCUMULATOR_DEFUALT),
                         !.XR = Byte(X_REGISTER_DEFUALT),
                         !.YR = Byte(Y_REGISTER_DEFUALT),
                         !.I_I = Byte(INSTRUCTION_REGISTER_DEFUALT)]
        s3 == setInternalAddressDataTo(s2, INTERNAL_ADDRESS_DATA_DEFUALT)
        s5 == setAddressBusTo(s3, ADDRESS_BUS_BUFFER_DEFUALT)
    IN  [s5 EXCEPT !.IO_DB = Byte(DATA_BUS_BUFFER_DEFUALT)]

defaultState(s) ==
    LET s1 == setProgramCounterTo(s, PROGRAM_COUNTER_DEFUALT)
        s2 == [s1 EXCEPT !.PS = Byte(STATUS_REGISTER_DEFUALT),
                         !.SP = Byte(STACK_POINTER_DEFUALT),
                         !.AC = Byte(ACCUMULATOR_DEFUALT),
                         !.XR = Byte(X_REGISTER_DEFUALT),
                         !.YR = Byte(Y_REGISTER_DEFUALT),
                         !.I_I = Byte(INSTRUCTION_REGISTER_DEFUALT)]
        s3 == setInternalAddressDataTo(s2, INTERNAL_ADDRESS_DATA_DEFUALT)
        s4 == [s3 EXCEPT !.sequences = << >>]
        s5 == setAddressBusTo(s4, ADDRESS_BUS_BUFFER_DEFUALT)
    IN  [s5 EXCEPT !.IO_DB = Byte(DATA_BUS_BUFFER_DEFUALT)]

fetch(s) ==
    [s EXCEPT !.IO_DB = Byte(Read(IO_AB(s))), !.reads = Append(@, IO_AB(s))]

\* write(): this.memory.write(this.addressBus, this.dataBus)
write(s) ==
    [s EXCEPT !.writes = Append(@, [address |-> IO_AB(s), data |-> s.IO_DB])]

setInternalDataBus(s) == [s EXCEPT !.I_DB = Byte(s.IO_DB)]

addressingProgramCounter(s) == setAddressBusTo(s, PC(s))

\* incrementProgramCounter without the increment
incrementProgramCounter_stuck(s) == s

incrementProgramCounter(s) == setProgramCounterTo(s, PC(s) + 1)

addressingInternalAddressData(s) == setAddressBusTo(s, I_AD(s))

incrementAddressBus(s) == setAddressBusTo(s, IO_AB(s) + 1)

\* the loop of addSequence: callbacks[index], ..., callbacks[1] are put in
\* front of the queue one by one, the last first
RECURSIVE addSequenceLoop(_, _, _)
addSequenceLoop(queue, callbacks, index) ==
    IF index >= 1
    THEN addSequenceLoop(<< callbacks[index] >> \o queue, callbacks, index - 1)
    ELSE queue

addSequence(s, callbacks) ==
    [s EXCEPT !.sequences = addSequenceLoop(@, callbacks, Len(callbacks))]

\* a micro-step closure: the decoder that made it, its T-number and the
\* operation handler the decoder looked up
Closure(mode, t, operation) == [mode |-> mode, t |-> t, operation |-> operation]

\* this.___ replaced by a micro-step with a body, the T1 of IMP
Empty_step == Closure("IMP", 1, "NOP")

\* this.___ as a queue entry
Empty == Closure("___", 0, "___")

\* the entry Array.prototype.pop takes: the last one
popped(queue) == queue[Len(queue)]

\* the queue Array.prototype.pop leaves
afterPop(queue) == SubSeq(queue, 1, Len(queue) - 1)

\* nextSequence: the state after the pop, and the closure returned
nextSequence(s) ==
    IF Len(s.sequences) = 0
    THEN [state |-> s, sequence |-> Empty]
    ELSE [state |-> [s EXCEPT !.sequences = afterPop(@)],
          sequence |-> popped(s.sequences)]

(***************************************************************************)
(* Operation handlers.  Every handler of the class, ADC to RRA, has an     *)
(* empty body.                                                              *)
(***************************************************************************)
\* the handlers with INX incrementing the X register
Handler_increments(name, s) ==
    IF name = "INX" THEN [s EXCEPT !.XR = Byte(@ + 1)] ELSE s

\* the handlers with JMP loading the program counter from the address bus
Handler_jumps(name, s) ==
    IF name = "JMP" THEN setProgramCounterTo(s, IO_AB(s)) ELSE s

\* the handlers with the store operations writing the data bus to memory
Handler_stores(name, s) ==
    IF name \in { "STA", "STX", "STY" } THEN write(s) ELSE s

Handler(name, s) == s

\* operation(): the call of the handler a decoder looked up; the call is
\* recorded with the bus pins it finds
operation(s, name) ==
    Handler(name,
        [s EXCEPT !.invoked =
            Append(@, [operation |-> name,
                       addressBus |-> IO_AB(s),
                       dataBus |-> s.IO_DB,
                       reads |-> s.reads,
                       at |-> Len(s.executed)])])

(***************************************************************************)
(* Addressing-mode decoders and their micro-steps.  M_Tn(s, op) is the     *)
(* closure Tn of decoder M, run in state s, with op the handler the decoder *)
(* looked up; M(s) is the decoder itself.                                  *)
(***************************************************************************)
ACU_T1(s, op) == operation(addressingProgramCounter(s), op)

ACU(s) ==
    LET op == operations(s.I_I)
    IN  addSequence(s, << Closure("ACU", 1, op) >>)

IMM_T1(s, op) ==
    operation(incrementProgramCounter(addressingProgramCounter(s)), op)

IMM(s) ==
    LET op == operations(s.I_I)
    IN  addSequence(s, << Closure("IMM", 1, op) >>)

IMP_T1(s, op) == operation(addressingProgramCounter(s), op)

IMP(s) ==
    LET op == operations(s.I_I)
    IN  addSequence(s, << Closure("IMP", 1, op) >>)

ABS_T1(s, op) ==
    setInternalDataBus(fetch(incrementProgramCounter(addressingProgramCounter(s))))

\* ABS's T2 without the advance of the program counter
ABS_T2_noIncrement(s, op) ==
    LET s1 == [s EXCEPT !.I_ADL = Byte(s.I_DB)]
    IN  setInternalDataBus(fetch(addressingProgramCounter(s1)))

ABS_T2(s, op) ==
    LET s1 == [s EXCEPT !.I_ADL = Byte(s.I_DB)]
    IN  setInternalDataBus(fetch(incrementProgramCounter(addressingProgramCounter(s1))))

ABS_T3(s, op) ==
    LET s1 == [s EXCEPT !.I_ADH = Byte(s.I_DB)]
    IN  operation(addressingInternalAddressData(s1), op)

ABS(s) ==
    LET op == operations(s.I_I)
    IN  addSequence(s, << Closure("ABS", 1, op), Closure("ABS", 2, op),
                          Closure("ABS", 3, op) >>)

ABX_T1(s, op) ==
    setInternalDataBus(fetch(incrementProgramCounter(addressingProgramCounter(s))))

ABX_T2(s, op) ==
    LET s1 == [s EXCEPT !.I_ADL = Byte(s.I_DB)]
    IN  setInternalDataBus(fetch(incrementProgramCounter(addressingProgramCounter(s1))))

\* the page-crossing test of ABX's T3, on the state after the index is added
ABX_pageCrossing(s) == ShiftLeft(s.I_ADH) # s.I_DB

ABX_T3(s, op) ==
    LET s1 == [s EXCEPT !.I_ADH = Byte(s.I_DB)]
        s2 == [setInternalAddressDataTo(s1, I_AD(s1) + s1.XR) EXCEPT !.added = s1.XR]
        s3 == addressingInternalAddressData(s2)
        pageCrossing == ABX_pageCrossing(s3)
        s4 == IF ~pageCrossing THEN operation(s3, op) ELSE s3
    IN  IF pageCrossing THEN addSequence(s4, << Closure("ABX", 4, op) >>) ELSE s4

ABX_T4(s, op) == operation(s, op)

ABX(s) ==
    LET op == operations(s.I_I)
    IN  addSequence(s, << Closure("ABX", 1, op), Closure("ABX", 2, op),
                          Closure("ABX", 3, op) >>)

ABY_T1(s, op) ==
    setInternalDataBus(fetch(incrementProgramCounter(addressingProgramCounter(s))))

ABY_T2(s, op) ==
    LET s1 == [s EXCEPT !.I_ADL = Byte(s.I_DB)]
    IN  setInternalDataBus(fetch(incrementProgramCounter(addressingProgramCounter(s1))))

\* the page-crossing test of ABY's T3, on the state after the index is added
ABY_pageCrossing(s) == ShiftLeft(s.I_ADH) # s.I_DB

ABY_T3(s, op) ==
    LET s1 == [s EXCEPT !.I_ADH = Byte(s.I_DB)]
        s2 == [setInternalAddressDataTo(s1, I_AD(s1) + s1.YR) EXCEPT !.added = s1.YR]
        s3 == addressingInternalAddressData(s2)
        pageCrossing == ABY_pageCrossing(s3)
        s4 == IF ~pageCrossing THEN operation(s3, op) ELSE s3
    IN  IF pageCrossing THEN addSequence(s4, << Closure("ABY", 4, op) >>) ELSE s4

ABY_T4(s, op) == operation(s, op)

ABY(s) ==
    LET op == operations(s.I_I)
    IN  addSequence(s, << Closure("ABY", 1, op), Closure("ABY", 2, op),
                          Closure("ABY", 3, op) >>)

ZPG_T1(s, op) ==
    setInternalDataBus(fetch(incrementProgramCounter(addressingProgramCounter(s))))

ZPG_T2(s, op) ==
    LET s1 == [s EXCEPT !.I_ADL = Byte(s.I_DB)]
    IN  operation(addressingInternalAddressData(s1), op)

ZPG(s) ==
    LET op == operations(s.I_I)
    IN  addSequence(s, << Closure("ZPG", 1, op), Closure("ZPG", 2, op) >>)

ZPX_T1(s, op) ==
    setInternalDataBus(fetch(incrementProgramCounter(addressingProgramCounter(s))))

ZPX_T2(s, op) ==
    LET s1 == [s EXCEPT !.I_ADL = Byte(s.I_DB)]
    IN  fetch(addressingInternalAddressData(s1))

ZPX_T3(s, op) ==
    LET s1 == [s EXCEPT !.I_ADL = Byte(s.I_ADL + s.XR), !.added = s.XR]
    IN  operation(addressingInternalAddressData(s1), op)

\* ZPX handing a fourth closure, a penalty step, to addSequence
ZPX_batch_penalty(op) ==
    << Closure("ZPX", 1, op), Closure("ZPX", 2, op), Closure("ZPX", 3, op),
       Closure("___", 4, op) >>

\* the closures ZPX hands to addSequence
ZPX_batch(op) ==
    << Closure("ZPX", 1, op), Closure("ZPX", 2, op), Closure("ZPX", 3, op) >>

ZPX(s) ==
    LET op == operations(s.I_I)
    IN  addSequence(s, ZPX_batch(op))

ZPY_T1(s, op) ==
    setInternalDataBus(fetch(incrementProgramCounter(addressingProgramCounter(s))))

ZPY_T2(s, op) ==
    LET s1 == [s EXCEPT !.I_ADL = Byte(s.I_DB)]
    IN  fetch(addressingInternalAddressData(s1))

ZPY_T3(s, op) ==
    LET s1 == [s EXCEPT !.I_ADL = Byte(s.I_ADL + s.YR), !.added = s.YR]
    IN  operation(addressingInternalAddressData(s1), op)

\* the closures ZPY hands to addSequence
ZPY_batch(op) ==
    << Closure("ZPY", 1, op), Closure("ZPY", 2, op), Closure("ZPY", 3, op) >>

ZPY(s) ==
    LET op == operations(s.I_I)
    IN  addSequence(s, ZPY_batch(op))

IDX_T1(s, op) ==
    setInternalDataBus(fetch(incrementProgramCounter(addressingProgramCounter(s))))

IDX_T2(s, op) ==
    LET s1 == [s EXCEPT !.I_ADL = Byte(s.I_DB)]
    IN  fetch(addressingInternalAddressData(s1))

IDX_T3(s, op) ==
    LET s1 == [s EXCEPT !.I_ADL = Byte(s.I_ADL + s.XR), !.added = s.XR]
    IN  setInternalDataBus(fetch(addressingInternalAddressData(s1)))

IDX_T4(s, op) ==
    LET s1 == [s EXCEPT !.I_ADL = Byte(s.I_DB)]
    IN  setInternalDataBus(fetch(incrementAddressBus(s1)))

IDX_T5(s, op) ==
    LET s1 == [s EXCEPT !.I_ADH = Byte(s.I_DB)]
    IN  operation(addressingInternalAddressData(s1), op)

IDX(s) ==
    LET op == operations(s.I_I)
    IN  addSequence(s, << Closure("IDX", 1, op), Closure("IDX", 2, op),
                          Closure("IDX", 3, op), Closure("IDX", 4, op),
                          Closure("IDX", 5, op) >>)

IDY_T1(s, op) ==
    setInternalDataBus(fetch(incrementProgramCounter(addressingProgramCounter(s))))

IDY_T2(s, op) ==
    LET s1 == [s EXCEPT !.I_ADL = Byte(s.I_DB)]
    IN  setInternalDataBus(fetch(addressingInternalAddressData(s1)))

IDY_T3(s, op) ==
    LET s1 == [s EXCEPT !.I_ADL = Byte(s.I_DB)]
    IN  setInternalDataBus(fetch(incrementAddressBus(s1)))

\* the page-crossing test of IDY's T4, on the state after the index is added
IDY_pageCrossing(s) == ShiftLeft(s.I_ADH) # s.I_DB

IDY_T4(s, op) ==
    LET s1 == [s EXCEPT !.I_ADH = Byte(s.I_DB)]
        s2 == [setInternalAddressDataTo(s1, I_AD(s1) + s1.YR) EXCEPT !.added = s1.YR]
        s3 == addressingInternalAddressData(s2)
        pageCrossing == IDY_pageCrossing(s3)
        s4 == IF ~pageCrossing THEN operation(s3, op) ELSE s3
    IN  IF pageCrossing THEN addSequence(s4, << Closure("IDY", 5, op) >>) ELSE s4

IDY_T5(s, op) == operation(s, op)

IDY(s) ==
    LET op == operations(s.I_I)
    IN  addSequence(s, << Closure("IDY", 1, op), Closure("IDY", 2, op),
                          Closure("IDY", 3, op), Closure("IDY", 4, op) >>)

\* REL's T1 without the read of the offset byte
REL_T1_noFetch(s, op) ==
    operation(incrementProgramCounter(addressingProgramCounter(s)), op)

REL_T1(s, op) ==
    operation(
        setInternalDataBus(fetch(incrementProgramCounter(addressingProgramCounter(s)))),
        op)

REL(s) ==
    LET op == operations(s.I_I)
    IN  addSequence(s, << Closure("REL", 1, op) >>)

\* this.addressings[this.internalInstruction].call(this)
decode(s) ==
    LET mode == addressings(s.I_I)
    IN  CASE mode = "ACU" -> ACU(s)
          [] mode = "IMM" -> IMM(s)
          [] mode = "IMP" -> IMP(s)
          [] mode = "ABS" -> ABS(s)
          [] mode = "ABX" -> ABX(s)
          [] mode = "ABY" -> ABY(s)
          [] mode = "ZPG" -> ZPG(s)
          [] mode = "ZPX" -> ZPX(s)
          [] mode = "ZPY" -> ZPY(s)
          [] mode = "IDX" -> IDX(s)
          [] mode = "IDY" -> IDY(s)
          [] mode = "REL" -> REL(s)

\* sequence.call(this), for a closure taken from the queue
call(s, c) ==
    LET m == c.mode
        t == c.t
        op == c.operation
    IN  CASE m = "___" -> s
          [] m = "ACU" -> ACU_T1(s, op)
          [] m = "IMM" -> IMM_T1(s, op)
          [] m = "IMP" -> IMP_T1(s, op)
          [] m = "REL" -> REL_T1(s, op)
          [] m = "ABS" /\ t = 1 -> ABS_T1(s, op)
          [] m = "ABS" /\ t = 2 -> ABS_T2(s, op)
          [] m = "ABS" /\ t = 3 -> ABS_T3(s, op)
          [] m = "ABX" /\ t = 1 -> ABX_T1(s, op)
          [] m = "ABX" /\ t = 2 -> ABX_T2(s, op)
          [] m = "ABX" /\ t = 3 -> ABX_T3(s, op)
          [] m = "ABX" /\ t = 4 -> ABX_T4(s, op)
          [] m = "ABY" /\ t = 1 -> ABY_T1(s, op)
          [] m = "ABY" /\ t = 2 -> ABY_T2(s, op)
          [] m = "ABY" /\ t = 3 -> ABY_T3(s, op)
          [] m = "ABY" /\ t = 4 -> ABY_T4(s, op)
          [] m = "ZPG" /\ t = 1 -> ZPG_T1(s, op)
          [] m = "ZPG" /\ t = 2 -> ZPG_T2(s, op)
          [] m = "ZPX" /\ t = 1 -> ZPX_T1(s, op)
          [] m = "ZPX" /\ t = 2 -> ZPX_T2(s, op)
          [] m = "ZPX" /\ t = 3 -> ZPX_T3(s, op)
          [] m = "ZPY" /\ t = 1 -> ZPY_T1(s, op)
          [] m = "ZPY" /\ t = 2 -> ZPY_T2(s, op)
          [] m = "ZPY" /\ t = 3 -> ZPY_T3(s, op)
          [] m = "IDX" /\ t = 1 -> IDX_T1(s, op)
          [] m = "IDX" /\ t = 2 -> IDX_T2(s, op)
          [] m = "IDX" /\ t = 3 -> IDX_T3(s, op)
          [] m = "IDX" /\ t = 4 -> IDX_T4(s, op)
          [] m = "IDX" /\ t = 5 -> IDX_T5(s, op)
          [] m = "IDY" /\ t = 1 -> IDY_T1(s, op)
          [] m = "IDY" /\ t = 2 -> IDY_T2(s, op)
          [] m = "IDY" /\ t = 3 -> IDY_T3(s, op)
          [] m = "IDY" /\ t = 4 -> IDY_T4(s, op)
          [] m = "IDY" /\ t = 5 -> IDY_T5(s, op)

(***************************************************************************)
(* The pin-level entry points.                                             *)
(***************************************************************************)
\* the test with an off-by-one: a single pending micro-step is overlooked
pending_offByOne(s) == Len(s.sequences) > 1

\* the test clock() makes first: is a micro-step pending?
pending(s) == Len(s.sequences) # 0

\* clock(), first branch, leaving the pending micro-step where it is
clockStep_stalls(s) == [s EXCEPT !.last = "step"]

\* clock(), first branch: take the next micro-step and run it
clockStep(s) ==
    LET n == nextSequence(s)
        s1 == [n.state EXCEPT !.last = "step",
                              !.executed = Append(@, n.sequence.t)]
    IN  call(s1, n.sequence)

\* clock(), second branch: load the instruction at the program counter,
\* clean the internal latches and let the decoder set the sequences up
clockFetch(s) ==
    LET s0 == [s EXCEPT !.last = "fetch", !.opAddr = PC(s),
                        !.executed = << >>, !.invoked = << >>, !.added = 0,
                        !.reads = << >>, !.abandoned = 0]
        s1 == addressingProgramCounter(s0)
        s2 == incrementProgramCounter(s1)
        s3 == fetch(s2)
        s4 == [s3 EXCEPT !.I_I = Byte(s3.IO_DB)]
        s5 == setInternalAddressDataTo(s4, 0)
        s6 == [s5 EXCEPT !.I_DB = Byte(0)]
    IN  decode(s6)

clock(s) == IF pending(s) THEN clockStep(s) ELSE clockFetch(s)

interruptRequest(s) ==
    LET s1 == [s EXCEPT !.last = "interruptRequest"]
    IN  IF interruptFlag(s1) = 1 THEN setBreakFlag(s1, 1) ELSE s1

\* nonMaskableInterrupt masked by the interrupt-disable flag
nonMaskableInterrupt_masked(s) ==
    LET s1 == [s EXCEPT !.last = "nonMaskableInterrupt"]
    IN  IF interruptFlag(s1) = 0 THEN setBreakFlag(s1, 1) ELSE s1

nonMaskableInterrupt(s) ==
    setBreakFlag([s EXCEPT !.last = "nonMaskableInterrupt"], 1)

\* setOverflow abandoning the instruction in flight
setOverflow_abandons(s) ==
    setOverflowFlag([s EXCEPT !.last = "setOverflow", !.sequences = << >>], 1)

setOverflow(s) == setOverflowFlag([s EXCEPT !.last = "setOverflow"], 1)

\* set indexX, the protected setter a subclass loads the X register with
indexX(s, data) == [s EXCEPT !.XR = Byte(data), !.last = "indexX"]

\* set indexY, the protected setter a subclass loads the Y register with
indexY(s, data) == [s EXCEPT !.YR = Byte(data), !.last = "indexY"]

reset(s) ==
    defaultState([s EXCEPT !.last = "reset", !.executed = << >>,
                           !.invoked = << >>, !.added = 0, !.reads = << >>,
                           !.abandoned = Len(s.sequences)])

(***************************************************************************)
(* The state machine.                                                      *)
(***************************************************************************)
\* new cpu6510(memory), for a memory holding one of the images
InitWith(images) ==
    LET s == defaultState(FieldInitializers)
    IN  /\ PCL = s.PCL /\ PCH = s.PCH /\ PS = s.PS /\ SP = s.SP
        /\ AC = s.AC /\ XR = s.XR /\ YR = s.YR
        /\ I_I = s.I_I /\ I_ADL = s.I_ADL /\ I_ADH = s.I_ADH /\ I_DB = s.I_DB
        /\ IO_DB = s.IO_DB /\ IO_ABL = s.IO_ABL /\ IO_ABH = s.IO_ABH
        /\ sequences = s.sequences /\ writes = s.writes
        /\ last = s.last /\ opAddr = s.opAddr
        /\ executed = s.executed /\ invoked = s.invoked /\ added = s.added
        /\ reads = s.reads /\ abandoned = s.abandoned /\ input = s.input
        /\ memory \in images
        /\ clocks = 0

\* construction with any of the memory images
Init == InitWith(MemoryImages)

Clock ==
    /\ clocks < MaxClocks
    /\ Become(clock(Cur))
    /\ memory' = Stored(memory, Written(clock(Cur)))
    /\ clocks' = clocks + 1

InterruptRequest ==
    /\ Become(interruptRequest(Cur))
    /\ UNCHANGED << memory, clocks >>

NonMaskableInterrupt ==
    /\ Become(nonMaskableInterrupt(Cur))
    /\ UNCHANGED << memory, clocks >>

SetOverflow ==
    /\ Become(setOverflow(Cur))
    /\ UNCHANGED << memory, clocks >>

Reset ==
    /\ Become(reset(Cur))
    /\ clocks' = 0
    /\ UNCHANGED memory

Next ==
    \/ Clock
    \/ InterruptRequest
    \/ NonMaskableInterrupt
    \/ SetOverflow
    \/ Reset

Spec == Init /\ [][Next]_vars

(***************************************************************************)
(* The same machine with the index registers loaded through the protected  *)
(* setters of the class, which is how a value other than the power-up 0    *)
(* gets into X or Y while every operation handler has an empty body.       *)
(***************************************************************************)
\* index values: 0x00, 0x01, 0x04, 0xFF
IndexValues == { 0, 1, 4, 255 }

IndexX ==
    /\ \E data \in IndexValues : Become(indexX(Cur, data))
    /\ UNCHANGED << memory, clocks >>

IndexY ==
    /\ \E data \in IndexValues : Become(indexY(Cur, data))
    /\ UNCHANGED << memory, clocks >>

NextIndexed ==
    \/ Clock
    \/ Reset
    \/ IndexX
    \/ IndexY

SpecIndexed == Init /\ [][NextIndexed]_vars

(***************************************************************************)
(* The protected register setters a subclass reaches, applied to the       *)
(* machine of the bundled driver, whose memory reads 0 everywhere.  They   *)
(* put the status register and the program counter in the states no       *)
(* operation handler, all being empty, can produce.                        *)
(***************************************************************************)
\* the memory object of the driver: read() returns 0 for every address
DriverMemory == [address \in {} |-> 0]

\* new cpu6510(memory, true) of the driver
InitDriver == InitWith({ DriverMemory })

\* set statusRegister
statusRegister(s, data) ==
    [s EXCEPT !.PS = Byte(data), !.last = "statusRegister", !.input = data]

\* set programCounter
programCounter(s, data) ==
    setProgramCounterTo(
        [s EXCEPT !.last = "programCounter", !.input = data], Word(data))

\* set programCounterLow
programCounterLow(s, data) ==
    [s EXCEPT !.PCL = Byte(data), !.last = "programCounterLow", !.input = data]

\* set programCounterHigh
programCounterHigh(s, data) ==
    [s EXCEPT !.PCH = Byte(data), !.last = "programCounterHigh", !.input = data]

\* status bytes written: every value, 0x00..0xFF
StatusInputs == 0..255

StatusRegister ==
    /\ \E data \in StatusInputs : Become(statusRegister(Cur, data))
    /\ UNCHANGED << memory, clocks >>

NextStatus ==
    \/ StatusRegister
    \/ InterruptRequest
    \/ NonMaskableInterrupt
    \/ SetOverflow
    \/ Reset

SpecStatus == InitDriver /\ [][NextStatus]_vars

\* words written: 0x0000, 0x0001, 0x00FF, 0x0100, 0x20FF, 0x7FFF, 0x8000,
\* 0xFF00, 0xFFFC, 0xFFFF
WordInputs == { 0, 1, 255, 256, 8447, 32767, 32768, 65280, 65532, 65535 }

\* bytes written: 0x00, 0x01, 0x0F, 0x7F, 0x80, 0xF0, 0xFF
ByteInputs == { 0, 1, 15, 127, 128, 240, 255 }

ProgramCounter ==
    /\ \E data \in WordInputs : Become(programCounter(Cur, data))
    /\ UNCHANGED << memory, clocks >>

ProgramCounterLow ==
    /\ \E data \in ByteInputs : Become(programCounterLow(Cur, data))
    /\ UNCHANGED << memory, clocks >>

ProgramCounterHigh ==
    /\ \E data \in ByteInputs : Become(programCounterHigh(Cur, data))
    /\ UNCHANGED << memory, clocks >>

NextProgramCounter ==
    \/ ProgramCounter
    \/ ProgramCounterLow
    \/ ProgramCounterHigh
    \/ Reset

SpecProgramCounter == InitDriver /\ [][NextProgramCounter]_vars

(***************************************************************************)
(* The debug printers.  Both read the registers through the getters,       *)
(* format the values and hand the text to console.info; `last` records     *)
(* the call.                                                               *)
(***************************************************************************)
\* debugInfo emptying the micro-step queue
debugInfo_clearsQueue(s) == [s EXCEPT !.last = "debugInfo", !.sequences = << >>]

\* debugInfo()
debugInfo(s) == [s EXCEPT !.last = "debugInfo"]

\* debugFlags()
debugFlags(s) == [s EXCEPT !.last = "debugFlags"]

DebugInfo ==
    /\ Become(debugInfo(Cur))
    /\ UNCHANGED << memory, clocks >>

DebugFlags ==
    /\ Become(debugFlags(Cur))
    /\ UNCHANGED << memory, clocks >>

NextDebug ==
    \/ Clock
    \/ InterruptRequest
    \/ NonMaskableInterrupt
    \/ SetOverflow
    \/ Reset
    \/ DebugInfo
    \/ DebugFlags

SpecDebug == Init /\ [][NextDebug]_vars

(***************************************************************************)
(* The protected queue step a subclass reaches: nextSequence().call(this), *)
(* the statement clock() guards with its length test, made without the     *)
(* test.                                                                   *)
(***************************************************************************)
\* this.nextSequence().call(this)
nextSequenceCall(s) ==
    LET n == nextSequence(s)
    IN  call([n.state EXCEPT !.last = "nextSequence"], n.sequence)

NextSequence ==
    /\ Become(nextSequenceCall(Cur))
    /\ memory' = Stored(memory, Written(nextSequenceCall(Cur)))
    /\ UNCHANGED clocks

NextSequenced ==
    \/ Clock
    \/ InterruptRequest
    \/ NonMaskableInterrupt
    \/ SetOverflow
    \/ Reset
    \/ NextSequence

SpecSequenced == Init /\ [][NextSequenced]_vars

(***************************************************************************)
(* The machine at the top of the address space, with the latches loaded    *)
(* through the protected setters.  Run by clock() alone the index is added *)
(* to a latch of 0 (the index step runs first, on the latches the opcode   *)
(* fetch has just cleared); the setters put 0xFF in the internal data bus  *)
(* and in the low half of the latch before that step.                      *)
(***************************************************************************)
\* opcodes at the top of memory: LDA abs,X / LDA abs,Y / LDA (zp),Y / NOP
WrapOpcodes == { 189, 185, 177, 234 }

\* the opcode at 0xFFFE and 0xFFFF, 0 everywhere else
WrapImage(opcode) == (65534 :> opcode) @@ (65535 :> opcode)

InitWrap == InitWith({ WrapImage(opcode) : opcode \in WrapOpcodes })

\* set internalDataBus
internalDataBus(s, data) ==
    [s EXCEPT !.I_DB = Byte(data), !.last = "internalDataBus", !.input = data]

\* set internalAddressDataLow
internalAddressDataLow(s, data) ==
    [s EXCEPT !.I_ADL = Byte(data), !.last = "internalAddressDataLow",
              !.input = data]

\* program counters written: 0xFFFE, 0xFFFF
WrapCounters == { 65534, 65535 }

\* index values written: 0x01
WrapIndexes == { 1 }

\* latch bytes written: 0xFF
WrapLatches == { 255 }

WrapProgramCounter ==
    /\ \E data \in WrapCounters : Become(programCounter(Cur, data))
    /\ UNCHANGED << memory, clocks >>

WrapIndexX ==
    /\ \E data \in WrapIndexes : Become(indexX(Cur, data))
    /\ UNCHANGED << memory, clocks >>

WrapIndexY ==
    /\ \E data \in WrapIndexes : Become(indexY(Cur, data))
    /\ UNCHANGED << memory, clocks >>

InternalDataBus ==
    /\ \E data \in WrapLatches : Become(internalDataBus(Cur, data))
    /\ UNCHANGED << memory, clocks >>

InternalAddressDataLow ==
    /\ \E data \in WrapLatches : Become(internalAddressDataLow(Cur, data))
    /\ UNCHANGED << memory, clocks >>

NextWrap ==
    \/ Clock
    \/ Reset
    \/ WrapProgramCounter
    \/ WrapIndexX
    \/ WrapIndexY
    \/ InternalDataBus
    \/ InternalAddressDataLow

SpecWrap == InitWrap /\ [][NextWrap]_vars

(***************************************************************************)
(* The machine as the bundled driver runs it: setInterval calls clock()    *)
(* again and again and nothing else is ever called.  The first byte of the *)
(* program is any opcode.  The bound stops further opcode fetches; an      *)
(* instruction in flight is always clocked to its end.                     *)
(***************************************************************************)
\* any opcode 0x00..0xFF at the reset address, above the pointer data
OpcodeImage(opcode) == (PROGRAM_COUNTER_DEFUALT :> opcode) @@ PointerData

LiveImages == { OpcodeImage(opcode) : opcode \in 0..255 } \cup { DriverMemory }

InitLive == InitWith(LiveImages)

\* setInterval(() => myCPU.clock(), ...)
ClockLive ==
    /\ clocks < MaxClocks \/ sequences # << >>
    /\ \E after \in { clock(Cur) } :
        /\ Become(after)
        /\ memory' = Stored(memory, Written(after))
    /\ clocks' = IF clocks < MaxClocks THEN clocks + 1 ELSE clocks

SpecLive == InitLive /\ [][ClockLive]_vars /\ WF_vars(ClockLive)

(***************************************************************************)
(* Properties.                                                             *)
(***************************************************************************)
\* the decoder of the instruction in the instruction latch
mode == addressings(I_I)

\* the step is a clock() call
IsClockCall == clocks' = clocks + 1

\* the operand bytes after the opcode fetched last
OperandLow == Read(Word(opAddr + 1))
OperandHigh == Read(Word(opAddr + 2))

\* the micro-steps that ran since the last fetch and carry T-number t
StepsRun(t) == Cardinality({ k \in DOMAIN executed : executed[k] = t })

\* the instruction fetched last has run all its micro-steps
Completed == last = "step" /\ sequences = << >>

\* C1: after a fetch whose decoder enqueued T1..Tn (n >= 2), the clock() calls
\* that follow run T1 first, then T2, ..., Tn last: the k-th micro-step run
\* since the fetch is Tk.
C1_BatchRunsInOrder ==
    mode \in { "ABS", "ABX", "ABY", "ZPG", "ZPX", "ZPY", "IDX", "IDY" }
        => \A k \in DOMAIN executed : executed[k] = k

\* C2: a clock() call that starts with an empty queue and program counter p
\* leaves address bus = p, data bus = instruction latch = memory[p],
\* program counter = (p + 1) mod 65536, address-data latch = 0, internal
\* data-bus latch = 0, and a non-empty queue.
C2_OpcodeFetch ==
    [][ (IsClockCall /\ sequences = << >>)
            => /\ IO_AB(Cur)' = PC(Cur)
               /\ IO_DB' = Read(PC(Cur))
               /\ I_I' = Read(PC(Cur))
               /\ PC(Cur)' = (PC(Cur) + 1) % 65536
               /\ I_AD(Cur)' = 0
               /\ I_DB' = 0
               /\ sequences' # << >>
               /\ \A k \in DOMAIN sequences' :
                      sequences'[k].mode = addressings(Read(PC(Cur))) ]_vars

\* C2 witness: the opcode at 0xFFFF has been fetched, the program counter
\* wrapped to 0 and the decoder's micro-steps are pending.
C2_Witness ==
    /\ last = "fetch" /\ opAddr = 65535 /\ PC(Cur) = 0
    /\ IO_AB(Cur) = 65535 /\ sequences # << >>

\* C3: a clock() call fetches an opcode if and only if the queue is empty
\* when the call starts, and a call that starts with a non-empty queue
\* leaves the instruction latch as it was.
C3_FetchIffQueueEmpty ==
    [][ IsClockCall
            => /\ (last' = "fetch") <=> (sequences = << >>)
               /\ (last' = "step") <=> (sequences # << >>)
               /\ sequences # << >> => I_I' = I_I ]_vars

\* C3 witness: the last micro-step of an absolute instruction has just run
\* (the queue held one step when the call started), the latch still holds the
\* opcode 0xAD.
C3_Witness ==
    /\ last = "step" /\ I_I = 173 /\ Len(executed) = 3 /\ sequences = << >>

\* C4: reset() yields program counter 0xFFFC, status 0b00000100, stack
\* pointer = accumulator = X = Y = 0, address bus = data bus = 0 and an
\* empty queue; the clock() call after it is an opcode fetch from 0xFFFC and
\* runs no micro-step enqueued before the reset.
C4_Reset ==
    [][ /\ last' = "reset"
            => /\ PC(Cur)' = 65532 /\ PS' = 4
               /\ SP' = 0 /\ AC' = 0 /\ XR' = 0 /\ YR' = 0
               /\ IO_AB(Cur)' = 0 /\ IO_DB' = 0
               /\ sequences' = << >>
        /\ (last = "reset" /\ IsClockCall)
            => /\ last' = "fetch"
               /\ IO_AB(Cur)' = 65532
               /\ I_I' = Read(65532)
               /\ executed' = << >>
               /\ \A k \in DOMAIN sequences' :
                      sequences'[k].mode = addressings(Read(65532)) ]_vars

\* C4 witness: a reset has just abandoned an instruction in flight: it
\* dropped at least two pending micro-steps and left a stale data-bus latch.
C4_Witness ==
    /\ last = "reset" /\ abandoned >= 2 /\ I_DB # 0
    /\ PC(Cur) = 65532 /\ PS = 4 /\ sequences = << >>

\* C5: with opcode 0xA9 (LDA immediate) at the program counter followed by
\* v, and an empty queue, two clock() calls give accumulator = v, zero flag =
\* (v = 0), negative flag = bit 7 of v, and an empty queue.
C5_LdaImmediate ==
    (I_I = 169 /\ Completed)
        => /\ AC = OperandLow
           /\ BitGet(PS, 1) = (IF OperandLow = 0 THEN 1 ELSE 0)
           /\ BitGet(PS, 7) = BitGet(OperandLow, 7)
           /\ Len(executed) = 1

\* the 16-bit base address of an indexed instruction: the operand word for
\* ABX and ABY, the page-zero pointer at the operand byte for IDY
IndexedBase ==
    IF mode = "IDY"
    THEN Read(OperandLow) + 256 * Read(Byte(OperandLow + 1))
    ELSE OperandHigh * 256 + OperandLow

\* adding index i to base b changes the high byte
Crosses(b, i) == ShiftRight(Word(b + i)) # ShiftRight(b)

\* T-number of the micro-step that adds the index, by decoder
IndexStep == IF mode = "IDY" THEN 4 ELSE 3

\* C6: for ABX, ABY and IDY with base b and index i, exactly one penalty
\* micro-step runs before the operation handler if and only if the high byte
\* of (b + i) mod 65536 differs from that of b; otherwise the handler runs in
\* the micro-step that adds the index and no penalty step runs.
C6_PenaltyIffPageCross ==
    (mode \in { "ABX", "ABY", "IDY" } /\ Completed)
        => /\ Len(invoked) = 1
           /\ IF Crosses(IndexedBase, added)
              THEN /\ StepsRun(IndexStep + 1) = 1
                   /\ executed[invoked[1].at] = IndexStep + 1
              ELSE /\ StepsRun(IndexStep + 1) = 0
                   /\ executed[invoked[1].at] = IndexStep

\* C7: for ABS, ABX and ABY with operand bytes lo and hi, the address bus is
\* (hi * 256 + lo + index) mod 65536 when the operation handler is invoked
\* (index 0 for ABS, X for ABX, Y for ABY).
C7_AbsoluteEffectiveAddress ==
    mode \in { "ABS", "ABX", "ABY" }
        => \A k \in DOMAIN invoked :
               invoked[k].addressBus =
                   Word(OperandHigh * 256 + OperandLow
                        + (CASE mode = "ABS" -> 0
                             [] mode = "ABX" -> XR
                             [] mode = "ABY" -> YR))

\* C8: a ZPX or ZPY instruction runs exactly 3 micro-steps, T1 to T3 once
\* each, whatever the operand byte and the index register hold, and no
\* penalty step is ever pending or run.
C8_ZeroPageIndexedThreeSteps ==
    mode \in { "ZPX", "ZPY" }
        => /\ Len(executed) + Len(sequences) = 3
           /\ \A k \in DOMAIN executed : executed[k] \in 1..3
           /\ \A k \in DOMAIN sequences :
                  sequences[k].mode = mode /\ sequences[k].t \in 1..3
           /\ \A t \in 1..3 :
                  StepsRun(t) + Cardinality({ k \in DOMAIN sequences :
                                                  sequences[k].t = t }) = 1

\* C8 witness: a ZPY instruction with operand 0xFF has run its three
\* micro-steps with index 0xFF added, and the queue is empty again.
C8_Witness ==
    /\ mode = "ZPY" /\ Completed /\ Len(executed) = 3
    /\ OperandLow = 255 /\ added = 255

\* C9: for ZPX and ZPY with operand z and index i, the address bus is
\* (z + i) mod 256, high byte 0, when the operation handler is invoked.
C9_ZeroPageIndexedAddress ==
    mode \in { "ZPX", "ZPY" }
        => \A k \in DOMAIN invoked :
               invoked[k].addressBus =
                   Byte(OperandLow + (IF mode = "ZPX" THEN XR ELSE YR))

\* C10: for IDX with operand z, the pointer low byte is read at
\* (z + X) mod 256 and the high byte at the next location, and the address
\* bus is the address those two bytes form when the operation handler is
\* invoked.
C10_IndexedIndirectAddress ==
    mode = "IDX"
        => \A k \in DOMAIN invoked :
               LET pointer == Byte(OperandLow + XR)
                   was == { invoked[k].reads[j] : j \in DOMAIN invoked[k].reads }
               IN  /\ pointer \in was
                   /\ Byte(pointer + 1) \in was
                   /\ invoked[k].addressBus =
                          Read(pointer) + 256 * Read(Byte(pointer + 1))

\* the instruction in the instruction latch is a JAM and its handler has run
JamHandlerRan == operations(I_I) = "JAM" /\ invoked # << >>

\* C11: for IDY with operand z, the address bus is
\* (memory[z] + 256 * memory[z + 1] + Y) mod 65536 when the operation handler
\* is invoked: the page-zero pointer is dereferenced first, then Y is added.
C11_IndirectIndexedAddress ==
    mode = "IDY"
        => \A k \in DOMAIN invoked :
               invoked[k].addressBus =
                   Word(Read(OperandLow) + 256 * Read(OperandLow + 1) + YR)

\* C12: once a JAM instruction has executed, no clock() call fetches an
\* opcode or changes the program counter until reset() is called.
C12_JamHalts ==
    [][ (JamHandlerRan /\ sequences = << >> /\ IsClockCall)
            => /\ last' # "fetch"
               /\ PC(Cur)' = PC(Cur) ]_vars

\* C13: after the JAM operation handler has run, the data bus holds 0xFF.
C13_JamDataBus ==
    (JamHandlerRan /\ last = "step") => IO_DB = 255

\* C14: interruptRequest() sets the break flag (bit 4) when the
\* interrupt-disable flag (bit 2) is clear and leaves the status register
\* unchanged when it is set.
C14_InterruptRequestMasked ==
    [][ last' = "interruptRequest"
            => IF BitGet(PS, 2) = 0
               THEN BitGet(PS', 4) = 1
               ELSE PS' = PS ]_vars

\* C15: nonMaskableInterrupt() leaves the break flag (status bit 4) at 1,
\* whatever the interrupt-disable flag (bit 2) was, and every other status
\* bit as it was before the call.
C15_NonMaskableInterruptSetsBreak ==
    [][ last' = "nonMaskableInterrupt"
            => /\ BitGet(PS', 4) = 1
               /\ \A index \in (0..7) \ {4} : BitGet(PS', index) = BitGet(PS, index)
      ]_vars

\* C15 witness: the call has acted while the interrupt-disable flag is set,
\* and the status reads 0xD7 (break set beside N, V, I, Z, C).
C15_Witness ==
    last = "nonMaskableInterrupt" /\ PS = 215 /\ BitGet(PS, 2) = 1

\* C16: setOverflow() leaves the overflow flag (status bit 6) at 1 and every
\* other status bit as it was before the call.
C16_SetOverflowSetsOverflow ==
    [][ last' = "setOverflow"
            => /\ BitGet(PS', 6) = 1
               /\ \A index \in (0..7) \ {6} : BitGet(PS', index) = BitGet(PS, index)
      ]_vars

\* C16 witness: the call has acted and the status reads 0xD1 (overflow set
\* beside N, B, C).
C16_Witness ==
    last = "setOverflow" /\ PS = 209

\* C17: the clock() call that completes the increment-X instruction (opcode
\* 0xE8) turns index X = x into (x + 1) mod 256, with the zero flag set iff
\* that result is 0 and the negative flag set iff its bit 7 is set.
C17_IncrementIndexX ==
    [][ (I_I = 232 /\ sequences # << >> /\ IsClockCall /\ sequences' = << >>)
            => /\ XR' = Byte(XR + 1)
               /\ BitGet(PS', 1) = (IF Byte(XR + 1) = 0 THEN 1 ELSE 0)
               /\ BitGet(PS', 7) = BitGet(Byte(XR + 1), 7)
      ]_vars

\* C18: after the program counter is set to a 16-bit value v, high * 256 +
\* low = v and reading the program counter gives v; setting only the low
\* half leaves the high half as it was, and setting only the high half
\* leaves the low half as it was.
C18_ProgramCounterSplit ==
    [][ /\ last' = "programCounter"
            => /\ PCH' * 256 + PCL' = input'
               /\ PC(Cur)' = input'
        /\ last' = "programCounterLow"
            => /\ PCL' = input'
               /\ PCH' = PCH
        /\ last' = "programCounterHigh"
            => /\ PCH' = input'
               /\ PCL' = PCL
      ]_vars

\* C18 witness: the program counter was set to 0x20FF and the halves read
\* 0x20 and 0xFF.
C18_Witness ==
    last = "programCounter" /\ input = 8447 /\ PCH = 32 /\ PCL = 255

\* C19: the operation table and the addressing table each hold 256 entries,
\* one per opcode 0x00..0xFF, and every entry is a handler, respectively a
\* decoder, the class defines; so every micro-step the decoders queued and
\* every handler a step invoked came from a defined lookup.
C19_TablesTotal ==
    /\ Len(operationsTable) = 256
    /\ Len(addressingsTable) = 256
    /\ \A opcode \in 0..255 :
        /\ operations(opcode) \in HandlerNames
        /\ addressings(opcode) \in DecoderNames
    /\ \A k \in DOMAIN sequences :
        /\ sequences[k].operation \in HandlerNames
        /\ sequences[k].mode \in DecoderNames
    /\ \A k \in DOMAIN invoked : invoked[k].operation \in HandlerNames

\* C19 witness: clock() fetched opcode 0xFF, the last key of both tables,
\* and its decoder queued micro-steps.
C19_Witness ==
    last = "fetch" /\ I_I = 255 /\ sequences # << >>

\* C20: a call of debugInfo() or debugFlags(), in any reachable state and
\* any number of times in a row, leaves every register (the flags are the
\* bits of PS), every internal latch, every bus pin and the micro-step queue
\* as they were.
C20_DebugLeavesStateAlone ==
    [][ last' \in { "debugInfo", "debugFlags" }
            => UNCHANGED << PCL, PCH, PS, SP, AC, XR, YR,
                            I_I, I_ADL, I_ADH, I_DB,
                            IO_DB, IO_ABL, IO_ABH, sequences >>
      ]_vars

\* C20 witness: debugInfo() was called in the middle of an instruction,
\* micro-steps still queued, with the break and overflow flags set.
C20_Witness ==
    last = "debugInfo" /\ sequences # << >> /\ PS = 84

\* C21: in every reachable state, the one after construction and the ones
\* after reset() included, bit 5 of the status register is set.
C21_StatusBitFiveSet == BitGet(PS, 5) = 1

\* C22: after reset(), called from any reachable state, the internal latches
\* hold their power-up value 0: the instruction latch, the low and high half
\* of the address-data latch and the internal data-bus latch.
C22_ResetClearsLatches ==
    [][ last' = "reset"
            => /\ I_I' = 0
               /\ I_ADL' = 0
               /\ I_ADH' = 0
               /\ I_DB' = 0
      ]_vars

\* memory transactions made by the step from this state to the next: the
\* opcode fetch starts the instruction's list of reads anew, a micro-step
\* appends to it; the class never calls memory.write
Transactions == IF sequences = << >> THEN Len(reads') ELSE Len(reads') - Len(reads)

\* C23: every clock() call, an opcode fetch as well as the execution of a
\* queued micro-step, makes exactly one memory transaction.
C23_OneTransactionPerClock ==
    [][ IsClockCall => Transactions = 1 ]_vars

\* C24: taking the next micro-step from an empty queue is a no-op, it
\* leaves every register, flag, latch, bus pin and the queue as they were;
\* and a clock() call that runs a micro-step never runs the empty one, the
\* one an empty queue yields.
C24_EmptyQueueStepIsNoOp ==
    [][ /\ (last' = "nextSequence" /\ sequences = << >>)
            => UNCHANGED << PCL, PCH, PS, SP, AC, XR, YR,
                            I_I, I_ADL, I_ADH, I_DB,
                            IO_DB, IO_ABL, IO_ABH, sequences >>
        /\ (IsClockCall /\ last' = "step")
            => /\ sequences # << >>
               /\ executed'[Len(executed')] # Empty.t
      ]_vars

\* C24 witness: a step was taken from the empty queue right after a reset()
\* that abandoned an instruction: no handler has run since, the break and
\* overflow flags are set and the internal data-bus latch is loaded.
C24_Witness ==
    /\ last = "nextSequence"
    /\ sequences = << >>
    /\ invoked = << >>
    /\ PS = 84
    /\ I_DB # 0

\* C25: within an instruction the operation handler is invoked by the final
\* micro-step and by no other: a clock() call that runs a micro-step invokes
\* the handler iff it leaves the queue empty, and the instruction has then
\* invoked it exactly once.
C25_HandlerInFinalStep ==
    [][ (IsClockCall /\ sequences # << >>)
            => /\ Len(invoked') - Len(invoked)
                    = (IF sequences' = << >> THEN 1 ELSE 0)
               /\ sequences' = << >> => Len(invoked') = 1
      ]_vars

\* the addressing modes whose decoder queues a single micro-step
OneStepModes == { "ACU", "IMP", "IMM", "REL" }

\* C26: for accumulator, implied, immediate and relative instructions the
\* decoder queues exactly one micro-step, and the clock() call following the
\* opcode fetch completes the instruction: the handler has been invoked once
\* and the queue is empty.  For relative mode that step has read the offset
\* byte memory[p + 1] onto the data bus before the handler runs.
C26_OneStepModes ==
    [][ (mode \in OneStepModes /\ sequences # << >> /\ executed = << >>)
            => /\ Len(sequences) = 1
               /\ IsClockCall
                    => /\ sequences' = << >>
                       /\ Len(invoked') = 1
                       /\ mode = "REL"
                            => /\ invoked'[1].reads = << opAddr, Word(opAddr + 1) >>
                               /\ invoked'[1].dataBus = Read(Word(opAddr + 1))
      ]_vars

\* C26 witness: a relative instruction completed in its single step, the
\* handler having found the offset byte 0x20 on the data bus.
C26_Witness ==
    /\ mode = "REL"
    /\ last = "step"
    /\ sequences = << >>
    /\ executed = << 1 >>
    /\ Len(invoked) = 1
    /\ invoked[1].dataBus = 32

\* the number of operand bytes of an addressing mode
OperandBytes(m) ==
    CASE m \in { "ACU", "IMP" } -> 0
      [] m \in { "IMM", "ZPG", "ZPX", "ZPY", "IDX", "IDY", "REL" } -> 1
      [] m \in { "ABS", "ABX", "ABY" } -> 2

RegistersInRange ==
    /\ \A r \in { PCL, PCH, PS, SP, AC, XR, YR } : r \in 0..255
    /\ \A l \in { I_I, I_ADL, I_ADH, I_DB } : l \in 0..255
    /\ \A p \in { IO_DB, IO_ABL, IO_ABH } : p \in 0..255
    /\ PC(Cur) \in 0..65535
    /\ I_AD(Cur) \in 0..65535
    /\ IO_AB(Cur) \in 0..65535

\* the micro-step reads the operand byte at the program counter
FetchesOperand(c) ==
    \/ c.t = 1 /\ c.mode \in { "ABS", "ABX", "ABY", "ZPG", "ZPX", "ZPY",
                               "IDX", "IDY", "REL" }
    \/ c.t = 2 /\ c.mode \in { "ABS", "ABX", "ABY" }

\* the micro-step adds an index register to the 16-bit address-data latch
AddsIndex(c) ==
    \/ c.t = 3 /\ c.mode \in { "ABX", "ABY" }
    \/ c.t = 4 /\ c.mode = "IDY"

\* the index register the micro-step adds
IndexOf(c) == IF c.mode = "ABX" THEN XR ELSE YR

\* what a clock() call does at the edges of the 16-bit range
WrapSteps ==
    /\ (IsClockCall /\ PC(Cur) = 65535
            /\ (sequences = << >> \/ FetchesOperand(popped(sequences))))
        => /\ PCH' = 0
           /\ PCL' = 0
    /\ (IsClockCall /\ sequences # << >> /\ AddsIndex(popped(sequences)))
        => I_ADH' * 256 + I_ADL'
              = (I_DB * 256 + I_ADL + IndexOf(popped(sequences))) % 65536

\* C28: in every reachable state the 8-bit registers, latches and the data
\* bus are in 0..255 and the program counter, the address-data latch and the
\* address bus are in 0..65535; an opcode fetch or an operand fetch at
\* program counter 0xFFFF leaves the program counter at 0x0000, and the
\* index added to the address-data latch is added modulo 65536.
C28_ValuesWrap == []RegistersInRange /\ [][WrapSteps]_vars

\* C28 witness: the opcode of an X-indexed absolute instruction was fetched
\* at 0xFFFF, which took the program counter to 0x0000, and its index step
\* added X = 1 to the latch 0xFFFF, which took the latch to 0x0000.
C28_Witness ==
    /\ last = "step"
    /\ opAddr = 65535
    /\ mode = "ABX"
    /\ executed = << 3 >>
    /\ added = 1
    /\ I_AD(Cur) = 0
    /\ PC(Cur) = 0

\* C29: interruptRequest(), nonMaskableInterrupt() and setOverflow() change
\* nothing but the status register: the micro-step queue, the program
\* counter, the stack pointer, accumulator, X, Y, the latches and both bus
\* pins stay as they were, so the instruction in flight keeps its remaining
\* steps.
C29_PinsTouchStatusOnly ==
    [][ last' \in { "interruptRequest", "nonMaskableInterrupt", "setOverflow" }
            => UNCHANGED << PCL, PCH, SP, AC, XR, YR,
                            I_I, I_ADL, I_ADH, I_DB,
                            IO_DB, IO_ABL, IO_ABH, sequences >>
      ]_vars

\* C29 witness: setOverflow() was called with an absolute instruction in
\* flight, one step run and two still queued, and the overflow flag is set.
C29_Witness ==
    /\ last = "setOverflow"
    /\ mode = "ABS"
    /\ Len(executed) = 1
    /\ Len(sequences) = 2
    /\ BitGet(PS, 6) = 1

\* the micro-step that reads the high byte of the page-zero pointer: it
\* advances the address bus from the low byte's address and reads there
ReadsPointerHigh(c) ==
    \/ c.mode = "IDX" /\ c.t = 4
    \/ c.mode = "IDY" /\ c.t = 3

\* C30: the pointer of an IDX or IDY instruction is read from page zero:
\* the step that reads its high byte, run with the address bus at the
\* page-zero address a, reads at (a + 1) mod 256, so from a = 0xFF it reads
\* address 0x0000 and not 0x0100.
C30_PointerStaysInPageZero ==
    [][ (IsClockCall /\ sequences # << >>
            /\ ReadsPointerHigh(popped(sequences)) /\ IO_AB(Cur) \in 0..255)
            => /\ IO_ABH' = 0
               /\ IO_ABL' = (IO_ABL + 1) % 256
               /\ reads'[Len(reads')] = (IO_ABL + 1) % 256
      ]_vars

\* the decoders the addressing table dispatches to
DecodersInTable == { addressings(opcode) : opcode \in 0..255 }

\* C31: the addressing table is built from exactly 13 distinct decoders,
\* and every opcode 0x00..0xFF, the one in the instruction latch included,
\* is dispatched to one of them.
C31_ThirteenDecoders ==
    /\ Cardinality(DecodersInTable) = 13
    /\ \A opcode \in 0..255 : addressings(opcode) \in DecoderNames
    /\ addressings(I_I) \in DecodersInTable

====
